---- MODULE Spec2Model ----
(***************************************************************************)
(* VGA text-mode writer of src/src/vga_buffer.rs: the colour encoding, the *)
(* 25 x 80 cell grid, the Writer's cursor / wrap / scroll logic and the    *)
(* locked, lazily built singleton used by the print macros.                *)
(***************************************************************************)
EXTENDS Integers, Sequences, FiniteSets, TLC

\* ------------------------------------------------------------------------
\* Program constants
\* ------------------------------------------------------------------------
BUFFER_HEIGHT == 25
BUFFER_WIDTH == 80

\* ------------------------------------------------------------------------
\* Bounds of the model
\* ------------------------------------------------------------------------
\* Number of public Writer operations applied in one run of SpecW.
MaxOps == 3
\* Number of formatted-print calls started in one run of SpecP.
MaxCalls == 3

\* ------------------------------------------------------------------------
\* Colours
\* ------------------------------------------------------------------------
Color ==
    [Black |-> 0, Blue |-> 1, Green |-> 2, Cyan |-> 3, Red |-> 4,
     Magenta |-> 5, Brown |-> 6, LightGray |-> 7, DarkGray |-> 8,
     LightBlue |-> 9, LightGreen |-> 10, LightCyan |-> 11, LightRed |-> 12,
     Pink |-> 13, Yellow |-> 14, White |-> 15]

ColorValues == {Color[n] : n \in DOMAIN Color}

\* u8 << n : bits shifted past bit 7 are lost.
ShlU8(x, n) == (x * (2 ^ n)) % 256

RECURSIVE BitOr(_, _)
\* u8 | u8, bit by bit.
BitOr(a, b) ==
    IF a = 0 THEN b
    ELSE IF b = 0 THEN a
    ELSE (IF a % 2 = 1 \/ b % 2 = 1 THEN 1 ELSE 0) + 2 * BitOr(a \div 2, b \div 2)

\* A plausible slip: the nibbles exchanged.
ColorCode_new_swapped(foreground, background) ==
    BitOr(ShlU8(foreground, 4), background)

\* ColorCode::new: (background as u8) << 4 | (foreground as u8)
ColorCode_new(foreground, background) ==
    BitOr(ShlU8(background, 4), foreground)

\* ------------------------------------------------------------------------
\* Cells and the grid
\* ------------------------------------------------------------------------
Rows == 0 .. (BUFFER_HEIGHT - 1)
Cols == 0 .. (BUFFER_WIDTH - 1)

ScreenChar(ascii, cc) == [ascii_character |-> ascii, color_code |-> cc]

\* What the display memory at 0xb8000 holds before the Writer first touches
\* it: the program never initialises it. A firmware leftover: a screen of
\* text, every row different, in the firmware's light-gray-on-black attribute.
BootText ==
    [row \in Rows |->
        [col \in Cols |->
            IF col < 12 THEN ScreenChar(48 + ((row + col) % 43), 7)
                        ELSE ScreenChar(32, 7)]]

InitGrids == {BootText}

\* ------------------------------------------------------------------------
\* State
\* ------------------------------------------------------------------------
VARIABLES
    column_position,  \* Writer.column_position
    color_code,       \* Writer.color_code
    buffer,           \* Writer.buffer.chars, [row][col]
    index_panic,      \* an index of chars[..][..] was out of range (Rust panics)
    op,               \* the last public operation: name, argument, what it did
    nops,             \* operations applied so far (SpecW)
    initialized,      \* lazy_static WRITER has been built
    locked,           \* spin::Mutex<Writer> lock flag
    pc,               \* where each caller of _print is
    args,             \* the fmt::Arguments of each caller's call, as pieces
    piece,            \* index of the piece write_fmt is at
    pos,              \* index of the byte write_string is at
    callid,           \* number of each caller's current call
    exit,             \* how each caller's last call ended
    log,              \* write_byte calls applied under _print: <<call, byte>>
    ncalls,           \* calls started so far (SpecP)
    issued,           \* the arguments of every call started, by call number
    built,            \* number of times the Writer was constructed
    frame             \* the call in progress, statement by statement (SpecN)

wvars == <<column_position, color_code, buffer, index_panic>>
pvars == <<initialized, locked, pc, args, piece, pos, callid, exit, log, ncalls,
           issued, built>>
vars == <<column_position, color_code, buffer, index_panic, op, nops,
          initialized, locked, pc, args, piece, pos, callid, exit, log, ncalls,
          issued, built, frame>>

\* ------------------------------------------------------------------------
\* The Writer's operations, on a record w of the Writer's fields plus what
\* the operation in progress has done so far (scrolls, write_byte calls,
\* indices used).
\* ------------------------------------------------------------------------
Cur ==
    [column_position |-> column_position, color_code |-> color_code,
     buffer |-> buffer, index_panic |-> index_panic,
     scrolls |-> 0, wb |-> <<>>, rows |-> {}, cols |-> {}]

\* A plausible slip: the blank in the VGA default attribute.
Blank_default(w) == ScreenChar(32, 7)

\* clear_row's blank cell
Blank(w) == ScreenChar(32, w.color_code)

\* self.buffer.chars[row][col].write(ch): a bounds-checked index, then a
\* volatile write. An index out of range panics and writes nothing.
WriteCell(w, row, col, ch) ==
    IF row \in Rows /\ col \in Cols
    THEN [w EXCEPT !.buffer[row][col] = ch,
                   !.rows = @ \cup {row}, !.cols = @ \cup {col}]
    ELSE [w EXCEPT !.index_panic = TRUE,
                   !.rows = @ \cup {row}, !.cols = @ \cup {col}]

\* A plausible slip: the loop one column short.
clear_row_short(w, row) ==
    IF row \in Rows
    THEN [w EXCEPT !.buffer[row] =
                       [col \in Cols |-> IF col < BUFFER_WIDTH - 1 THEN Blank(w)
                                                                   ELSE @[col]],
                   !.rows = @ \cup {row}, !.cols = @ \cup (0 .. (BUFFER_WIDTH - 2))]
    ELSE [w EXCEPT !.index_panic = TRUE, !.rows = @ \cup {row}]

\* clear_row(row): for col in 0..BUFFER_WIDTH, chars[row][col].write(blank)
clear_row(w, row) ==
    IF row \in Rows
    THEN [w EXCEPT !.buffer[row] = [col \in Cols |-> Blank(w)],
                   !.rows = @ \cup {row}, !.cols = @ \cup Cols]
    ELSE [w EXCEPT !.index_panic = TRUE, !.rows = @ \cup {row}]

RECURSIVE ShiftRows_short(_, _)
\* A plausible slip: the row loop one row short, the bottom row never copied.
ShiftRows_short(chars, row) ==
    IF row >= BUFFER_HEIGHT - 1 THEN chars
    ELSE ShiftRows_short(
             [chars EXCEPT ![row - 1] = [col \in Cols |-> chars[row][col]]], row + 1)

RECURSIVE ShiftRows(_, _)
\* new_line's loop, from `row` on: for row in 1..BUFFER_HEIGHT, every cell of
\* the row is read and written to the row above, rows ascending.
ShiftRows(chars, row) ==
    IF row >= BUFFER_HEIGHT THEN chars
    ELSE ShiftRows([chars EXCEPT ![row - 1] = [col \in Cols |-> chars[row][col]]],
                   row + 1)

\* new_line
new_line(w) ==
    LET shifted == [w EXCEPT !.buffer = ShiftRows(@, 1),
                             !.rows = @ \cup (0 .. (BUFFER_HEIGHT - 1)),
                             !.cols = @ \cup Cols]
        cleared == clear_row(shifted, BUFFER_HEIGHT - 1)
    IN  [cleared EXCEPT !.column_position = 0, !.scrolls = @ + 1]

\* A plausible slip: the wrap one column early.
LineFull_early(w) == w.column_position >= BUFFER_WIDTH - 1

\* A plausible slip: > for >=.
LineFull_late(w) == w.column_position > BUFFER_WIDTH

\* write_byte's wrap test: self.column_position >= BUFFER_WIDTH
LineFull(w) == w.column_position >= BUFFER_WIDTH

\* A plausible slip: the wrap test made before the byte is looked at, so a
\* newline on a full row scrolls twice.
write_byte_eager(w, byte) ==
    LET w0 == [w EXCEPT !.wb = Append(@, byte)]
        w1 == IF LineFull(w0) THEN new_line(w0) ELSE w0
    IN  IF byte = 10
        THEN new_line(w1)
        ELSE LET row == BUFFER_HEIGHT - 1
                 col == w1.column_position
                 w2 == WriteCell(w1, row, col, ScreenChar(byte, w1.color_code))
             IN  IF w2.index_panic THEN w2
                 ELSE [w2 EXCEPT !.column_position = @ + 1]

\* write_byte
write_byte(w, byte) ==
    LET w0 == [w EXCEPT !.wb = Append(@, byte)]
    IN  IF byte = 10
        THEN new_line(w0)
        ELSE LET w1 == IF LineFull(w0) THEN new_line(w0) ELSE w0
                 row == BUFFER_HEIGHT - 1
                 col == w1.column_position
                 w2 == WriteCell(w1, row, col, ScreenChar(byte, w1.color_code))
             IN  IF w2.index_panic THEN w2
                 ELSE [w2 EXCEPT !.column_position = @ + 1]

\* A plausible slip: the range's upper end left out (0x20..0x7e).
IsPrintableOrNewline_exclusive(byte) == (byte >= 32 /\ byte < 126) \/ byte = 10

\* A plausible slip: the range's upper end forgotten (0x20..).
IsPrintableOrNewline_unbounded(byte) == byte >= 32 \/ byte = 10

\* write_string's match arm: 0x20..=0x7e | b'\n'
IsPrintableOrNewline(byte) == (byte >= 32 /\ byte <= 126) \/ byte = 10

\* One turn of write_string's loop
write_string_byte(w, byte) ==
    IF IsPrintableOrNewline(byte) THEN write_byte(w, byte) ELSE write_byte(w, 254)

RECURSIVE write_string_from(_, _, _)
\* write_string's loop from the i-th byte of s on; a panic ends it.
write_string_from(w, s, i) ==
    IF i > Len(s) \/ w.index_panic THEN w
    ELSE write_string_from(write_string_byte(w, s[i]), s, i + 1)

\* write_string
write_string(w, s) == write_string_from(w, s, 1)

\* ------------------------------------------------------------------------
\* Inputs
\* ------------------------------------------------------------------------
\* n printable bytes, all different, the last one '~' (0x7e), the top of the
\* printable range.
Line(n) == [i \in 1 .. n |-> 126 - n + i]

Hello == <<72, 101, 108, 108, 111, 10>>

\* Arguments of write_byte: newline, the two ends of the printable range, a
\* control byte, a high byte.
Bytes == {10, 32, 126, 7, 195}

\* Arguments of write_string (valid UTF-8): "Hello\n", lines of 79 and 80
\* printable bytes, BEL alone, a two-byte character alone, and a mix of
\* printable, control and newline bytes.
Strings == {Hello, Line(BUFFER_WIDTH - 1), Line(BUFFER_WIDTH),
            <<7>>, <<195, 169>>, <<126, 127, 10, 33>>}

Procs == {"p1", "p2"}

NoOp == [name |-> "none", arg |-> <<>>, preCol |-> 0, scrolls |-> 0,
         wb |-> <<>>, rows |-> {}, cols |-> {}]

\* No call in progress.
NoFrame == [pc |-> "idle", caller |-> "none", byte |-> 0, row |-> 0, col |-> 0,
            character |-> ScreenChar(0, 0)]

\* ------------------------------------------------------------------------
\* SpecW: the public operations of one Writer, applied one after another.
\* ------------------------------------------------------------------------
Commit(name, arg, r) ==
    /\ column_position' = r.column_position
    /\ color_code' = r.color_code
    /\ buffer' = r.buffer
    /\ index_panic' = r.index_panic
    /\ op' = [name |-> name, arg |-> arg, preCol |-> column_position,
              scrolls |-> r.scrolls, wb |-> r.wb, rows |-> r.rows, cols |-> r.cols]

ProcInit ==
    /\ locked = FALSE
    /\ pc = [p \in Procs |-> "idle"]
    /\ args = [p \in Procs |-> <<>>]
    /\ piece = [p \in Procs |-> 1]
    /\ pos = [p \in Procs |-> 1]
    /\ callid = [p \in Procs |-> 0]
    /\ exit = [p \in Procs |-> "none"]
    /\ log = <<>>
    /\ ncalls = 0
    /\ issued = <<>>
    /\ frame = NoFrame

\* The Writer as the WRITER initialiser builds it, over any display content.
InitW ==
    /\ column_position = 0
    /\ color_code = ColorCode_new(Color.Yellow, Color.Black)
    /\ buffer \in InitGrids
    /\ index_panic = FALSE
    /\ op = NoOp
    /\ nops = 0
    /\ initialized = TRUE
    /\ built = 1
    /\ ProcInit

CallWriteByte ==
    \E byte \in Bytes :
        /\ nops < MaxOps
        /\ ~index_panic
        /\ Commit("write_byte", <<byte>>, write_byte(Cur, byte))
        /\ nops' = nops + 1
        /\ UNCHANGED <<pvars, frame>>

CallWriteString ==
    \E s \in Strings :
        /\ nops < MaxOps
        /\ ~index_panic
        /\ Commit("write_string", s, write_string(Cur, s))
        /\ nops' = nops + 1
        /\ UNCHANGED <<pvars, frame>>

CallNewLine ==
    /\ nops < MaxOps
    /\ ~index_panic
    /\ Commit("new_line", <<>>, new_line(Cur))
    /\ nops' = nops + 1
    /\ UNCHANGED <<pvars, frame>>

NextW == CallWriteByte \/ CallWriteString \/ CallNewLine

SpecW == InitW /\ [][NextW]_vars

\* ------------------------------------------------------------------------
\* SpecP: callers of _print (print!, println!) on the WRITER singleton.
\* ------------------------------------------------------------------------
\* What write_fmt does with a call's fmt::Arguments, in order: a text handed
\* to write_str, or a formatting step (a Display impl) that returns Err.
Text(s) == [err |-> FALSE, s |-> s]
FmtErr == [err |-> TRUE, s |-> <<>>]

\* println!("Hi"): print!("{}\n", format_args!("Hi")), the text and then the
\* newline; print!("e-acute"), two bytes outside ASCII; print!("A{}", x)
\* where formatting x fails after the "A" is written.
PrintArgs == {<<Text(<<72, 105>>), Text(<<10>>)>>,
              <<Text(<<195, 169>>)>>,
              <<Text(<<65>>), FmtErr>>}

\* Field values standing for "no Writer built yet".
Unbuilt == 0 - 1

InitP ==
    /\ column_position = Unbuilt
    /\ color_code = Unbuilt
    /\ buffer \in InitGrids
    /\ index_panic = FALSE
    /\ op = NoOp
    /\ nops = 0
    /\ initialized = FALSE
    /\ built = 0
    /\ ProcInit

\* print!/println! reach _print(args)
Call(p) ==
    \E a \in PrintArgs :
        /\ pc[p] = "idle"
        /\ ncalls < MaxCalls
        /\ ncalls' = ncalls + 1
        /\ callid' = [callid EXCEPT ![p] = ncalls + 1]
        /\ issued' = Append(issued, a)
        /\ args' = [args EXCEPT ![p] = a]
        /\ piece' = [piece EXCEPT ![p] = 1]
        /\ pos' = [pos EXCEPT ![p] = 1]
        /\ pc' = [pc EXCEPT ![p] = "deref"]
        /\ UNCHANGED <<frame, wvars, op, nops, initialized, locked, exit, log, built>>

\* A plausible slip: the static rebuilt at every access.
Deref_rebuild(p) ==
    /\ pc[p] = "deref"
    /\ column_position' = 0
    /\ color_code' = ColorCode_new(Color.Yellow, Color.Black)
    /\ initialized' = TRUE
    /\ built' = built + 1
    /\ pc' = [pc EXCEPT ![p] = "lock"]
    /\ UNCHANGED <<frame, buffer, index_panic, op, nops, locked, args, piece, pos,
                   callid, exit, log, ncalls, issued>>

\* WRITER: the lazy_static is built by whoever dereferences it first.
Deref(p) ==
    /\ pc[p] = "deref"
    /\ IF initialized
       THEN UNCHANGED <<column_position, color_code, initialized, built>>
       ELSE /\ column_position' = 0
            /\ color_code' = ColorCode_new(Color.Yellow, Color.Black)
            /\ initialized' = TRUE
            /\ built' = built + 1
    /\ pc' = [pc EXCEPT ![p] = "lock"]
    /\ UNCHANGED <<frame, buffer, index_panic, op, nops, locked, args, piece, pos,
                   callid, exit, log, ncalls, issued>>

\* A plausible slip: the flag set without testing it.
Acquire_untested(p) ==
    /\ pc[p] = "lock"
    /\ locked' = TRUE
    /\ pc' = [pc EXCEPT ![p] = "fmt"]
    /\ UNCHANGED <<frame, wvars, op, nops, initialized, args, piece, pos, callid, exit,
                   log, ncalls, issued, built>>

\* .lock(): spins until the flag is clear, then sets it.
Acquire(p) ==
    /\ pc[p] = "lock"
    /\ ~locked
    /\ locked' = TRUE
    /\ pc' = [pc EXCEPT ![p] = "fmt"]
    /\ UNCHANGED <<frame, wvars, op, nops, initialized, args, piece, pos, callid, exit,
                   log, ncalls, issued, built>>

\* write_fmt -> write_str -> write_string: one turn of write_string's loop.
WriteStrByte(p) ==
    /\ pc[p] = "fmt"
    /\ ~index_panic
    /\ piece[p] <= Len(args[p])
    /\ ~args[p][piece[p]].err
    /\ LET s == args[p][piece[p]].s
           r == write_string_byte(Cur, s[pos[p]])
       IN  /\ Commit("write_str", <<s[pos[p]]>>, r)
           /\ log' = Append(log, <<callid[p], r.wb[1]>>)
           /\ IF pos[p] < Len(s)
              THEN /\ pos' = [pos EXCEPT ![p] = @ + 1]
                   /\ UNCHANGED piece
              ELSE /\ pos' = [pos EXCEPT ![p] = 1]
                   /\ piece' = [piece EXCEPT ![p] = @ + 1]
    /\ UNCHANGED <<frame, nops, initialized, locked, pc, args, callid, exit, ncalls,
                   issued, built>>

\* write_fmt returns Err: .unwrap() panics, the guard still alive.
FmtFails(p) ==
    /\ pc[p] = "fmt"
    /\ piece[p] <= Len(args[p])
    /\ args[p][piece[p]].err
    /\ pc' = [pc EXCEPT ![p] = "panic"]
    /\ UNCHANGED <<frame, wvars, op, nops, initialized, locked, args, piece, pos, callid,
                   exit, log, ncalls, issued, built>>

\* A plausible slip: the guard leaked on the panic path.
Unwind_leak(p) ==
    /\ pc[p] = "panic"
    /\ pc' = [pc EXCEPT ![p] = "idle"]
    /\ exit' = [exit EXCEPT ![p] = "panic"]
    /\ UNCHANGED <<frame, wvars, op, nops, initialized, locked, args, piece, pos, callid,
                   log, ncalls, issued, built>>

\* The panic unwinds out of _print: the guard is dropped, the flag cleared.
Unwind(p) ==
    /\ pc[p] = "panic"
    /\ locked' = FALSE
    /\ pc' = [pc EXCEPT ![p] = "idle"]
    /\ exit' = [exit EXCEPT ![p] = "panic"]
    /\ UNCHANGED <<frame, wvars, op, nops, initialized, args, piece, pos, callid,
                   log, ncalls, issued, built>>

\* The panic does not unwind (panic = abort, or a panic handler that never
\* returns): the caller stops inside the call, nothing is dropped.
Halt(p) ==
    /\ pc[p] = "panic"
    /\ pc' = [pc EXCEPT ![p] = "halted"]
    /\ UNCHANGED <<frame, wvars, op, nops, initialized, locked, args, piece, pos, callid,
                   exit, log, ncalls, issued, built>>

\* A plausible slip: the call ends with its last piece still to write.
Return_early(p) ==
    /\ pc[p] = "fmt"
    /\ piece[p] >= Len(args[p])
    /\ pos[p] = 1
    /\ locked' = FALSE
    /\ pc' = [pc EXCEPT ![p] = "idle"]
    /\ exit' = [exit EXCEPT ![p] = "ok"]
    /\ UNCHANGED <<frame, wvars, op, nops, initialized, args, piece, pos, callid,
                   log, ncalls, issued, built>>

\* write_fmt returned Ok: the guard is dropped at the end of the statement.
Return(p) ==
    /\ pc[p] = "fmt"
    /\ piece[p] > Len(args[p])
    /\ locked' = FALSE
    /\ pc' = [pc EXCEPT ![p] = "idle"]
    /\ exit' = [exit EXCEPT ![p] = "ok"]
    /\ UNCHANGED <<frame, wvars, op, nops, initialized, args, piece, pos, callid,
                   log, ncalls, issued, built>>

NextP ==
    \E p \in Procs :
        \/ Call(p)
        \/ Deref(p)
        \/ Acquire(p)
        \/ WriteStrByte(p)
        \/ FmtFails(p)
        \/ Unwind(p)
        \/ Halt(p)
        \/ Return(p)

SpecP == InitP /\ [][NextP]_vars

\* The steps of a caller that holds the lock: the code between lock() and
\* the end of the call.
Runs(p) == WriteStrByte(p) \/ FmtFails(p) \/ Unwind(p) \/ Halt(p) \/ Return(p)

\* ------------------------------------------------------------------------
\* SpecS: the fmt::Write adapter, write_str, applied to one Writer.
\* ------------------------------------------------------------------------
\* A plausible slip: text the display cannot show is refused.
write_str_strict(w, s) ==
    IF \A i \in 1 .. Len(s) : IsPrintableOrNewline(s[i])
    THEN [w |-> write_string(w, s), result |-> "Ok"]
    ELSE [w |-> w, result |-> "Err"]

\* <Writer as fmt::Write>::write_str: self.write_string(s); Ok(())
write_str(w, s) == [w |-> write_string(w, s), result |-> "Ok"]

CallWriteStr ==
    \E s \in Strings :
        /\ nops < MaxOps
        /\ ~index_panic
        /\ LET o == write_str(Cur, s)
           IN  /\ column_position' = o.w.column_position
               /\ color_code' = o.w.color_code
               /\ buffer' = o.w.buffer
               /\ index_panic' = o.w.index_panic
               /\ op' = [name |-> "write_str", arg |-> s,
                         preCol |-> column_position, scrolls |-> o.w.scrolls,
                         wb |-> o.w.wb, rows |-> o.w.rows, cols |-> o.w.cols,
                         result |-> o.result]
        /\ nops' = nops + 1
        /\ UNCHANGED <<pvars, frame>>

NextS == CallWriteStr

SpecS == InitW /\ [][NextS]_vars

\* ------------------------------------------------------------------------
\* SpecN: new_line and write_byte one device access at a time. `frame` is
\* the running call: where it is, its loop indices, its local `character`.
\* `op` counts the volatile reads and writes of the call, keeps the last
\* one, and the grid as the call found it.
\* ------------------------------------------------------------------------
MaxEntries == 2

Glyphs == {65, 126}

NoAccess == [kind |-> "none", row |-> 0, col |-> 0, val |-> ScreenChar(0, 0)]

StartOp(name, arg) ==
    [name |-> name, arg |-> arg, preCol |-> column_position,
     reads |-> 0, writes |-> 0, last |-> NoAccess, before |-> buffer]

Touch(kind, row, col, val) ==
    op' = [op EXCEPT !.reads = IF kind = "read" THEN @ + 1 ELSE @,
                     !.writes = IF kind = "write" THEN @ + 1 ELSE @,
                     !.last = [kind |-> kind, row |-> row, col |-> col,
                               val |-> val]]

\* The Writer as built, or after its first full line of text.
InitN ==
    \E g \in InitGrids : \E s \in {<<>>, Line(BUFFER_WIDTH)} :
        LET w == write_string(
                     [column_position |-> 0,
                      color_code |-> ColorCode_new(Color.Yellow, Color.Black),
                      buffer |-> g, index_panic |-> FALSE,
                      scrolls |-> 0, wb |-> <<>>, rows |-> {}, cols |-> {}], s)
        IN  /\ column_position = w.column_position
            /\ color_code = w.color_code
            /\ buffer = w.buffer
            /\ index_panic = w.index_panic
            /\ op = [name |-> "none", arg |-> <<>>, preCol |-> 0, reads |-> 0,
                     writes |-> 0, last |-> NoAccess, before |-> w.buffer]
            /\ nops = 0
            /\ initialized = TRUE
            /\ built = 1
            /\ ProcInit

\* new_line entered: for row in 1..BUFFER_HEIGHT { for col in 0..BUFFER_WIDTH
NewLineFrame(caller, byte) ==
    [pc |-> "read", caller |-> caller, byte |-> byte, row |-> 1, col |-> 0,
     character |-> ScreenChar(0, 0)]

\* A plausible slip: the copy written back to the row it was read from.
Above_same(row) == row

\* chars[row - 1][col]
Above(row) == row - 1

\* writer.new_line()
StartNewLine ==
    /\ frame.pc = "idle"
    /\ nops < MaxEntries
    /\ ~index_panic
    /\ frame' = NewLineFrame("new_line", 0)
    /\ op' = StartOp("new_line", <<>>)
    /\ nops' = nops + 1
    /\ UNCHANGED <<wvars, pvars>>

\* writer.write_byte(byte) up to its first device access: the match on the
\* byte and the test of the column.
StartWriteByte ==
    \E byte \in Glyphs :
        /\ frame.pc = "idle"
        /\ nops < MaxEntries
        /\ ~index_panic
        /\ frame' = IF byte = 10 \/ LineFull(Cur)
                    THEN NewLineFrame("write_byte", byte)
                    ELSE [NoFrame EXCEPT !.pc = "put", !.caller = "write_byte",
                                         !.byte = byte]
        /\ op' = StartOp("write_byte", <<byte>>)
        /\ nops' = nops + 1
        /\ UNCHANGED <<wvars, pvars>>

\* let character = self.buffer.chars[row][col].read();
ReadCell ==
    /\ frame.pc = "read"
    /\ frame' = [frame EXCEPT !.character = buffer[frame.row][frame.col],
                              !.pc = "write"]
    /\ Touch("read", frame.row, frame.col, buffer[frame.row][frame.col])
    /\ UNCHANGED <<wvars, nops, pvars>>

\* self.buffer.chars[row - 1][col].write(character); then the next turn of
\* the inner loop, of the outer loop, or on to clear_row(BUFFER_HEIGHT - 1).
WriteAbove ==
    /\ frame.pc = "write"
    /\ buffer' = [buffer EXCEPT ![Above(frame.row)][frame.col] = frame.character]
    /\ Touch("write", Above(frame.row), frame.col, frame.character)
    /\ frame' = IF frame.col + 1 < BUFFER_WIDTH
                THEN [frame EXCEPT !.pc = "read", !.col = @ + 1]
                ELSE IF frame.row + 1 < BUFFER_HEIGHT
                THEN [frame EXCEPT !.pc = "read", !.row = @ + 1, !.col = 0]
                ELSE [frame EXCEPT !.pc = "clear", !.row = BUFFER_HEIGHT - 1,
                                   !.col = 0]
    /\ UNCHANGED <<column_position, color_code, index_panic, nops, pvars>>

\* clear_row: for col in 0..BUFFER_WIDTH { chars[row][col].write(blank) }
ClearCell ==
    /\ frame.pc = "clear"
    /\ buffer' = [buffer EXCEPT ![frame.row][frame.col] = Blank(Cur)]
    /\ Touch("write", frame.row, frame.col, Blank(Cur))
    /\ frame' = IF frame.col + 1 < BUFFER_WIDTH
                THEN [frame EXCEPT !.col = @ + 1]
                ELSE [frame EXCEPT !.pc = "column"]
    /\ UNCHANGED <<column_position, color_code, index_panic, nops, pvars>>

\* self.column_position = 0; and back to the caller: write_byte goes on to
\* place its byte unless the byte was the newline.
SetColumn ==
    /\ frame.pc = "column"
    /\ column_position' = 0
    /\ frame' = IF frame.caller = "write_byte" /\ frame.byte # 10
                THEN [NoFrame EXCEPT !.pc = "put", !.caller = "write_byte",
                                     !.byte = frame.byte]
                ELSE NoFrame
    /\ UNCHANGED <<color_code, buffer, index_panic, op, nops, pvars>>

\* chars[BUFFER_HEIGHT - 1][col].write(ScreenChar {..}); column_position += 1
PutCell ==
    /\ frame.pc = "put"
    /\ LET ch == ScreenChar(frame.byte, color_code)
           w == WriteCell(Cur, BUFFER_HEIGHT - 1, column_position, ch)
       IN  /\ buffer' = w.buffer
           /\ index_panic' = w.index_panic
           /\ column_position' = IF w.index_panic THEN column_position
                                                  ELSE column_position + 1
           /\ IF w.index_panic THEN op' = op
              ELSE Touch("write", BUFFER_HEIGHT - 1, column_position, ch)
    /\ frame' = NoFrame
    /\ UNCHANGED <<color_code, nops, pvars>>

NextN ==
    \/ StartNewLine
    \/ StartWriteByte
    \/ ReadCell
    \/ WriteAbove
    \/ ClearCell
    \/ SetColumn
    \/ PutCell

SpecN == InitN /\ [][NextN]_vars

\* ------------------------------------------------------------------------
\* SpecV: a screenful of new_line calls with a few glyphs typed in between.
\* `op` also keeps the bottom row each scroll found (hist), how many
\* new_line calls came in a row (streak) and how many glyphs were typed.
\* ------------------------------------------------------------------------
MaxGlyphs == 1

\* One scroll more than the display has rows.
MaxScrolls == BUFFER_HEIGHT + 1

CommitV(name, arg, r) ==
    /\ column_position' = r.column_position
    /\ color_code' = r.color_code
    /\ buffer' = r.buffer
    /\ index_panic' = r.index_panic
    /\ op' = [name |-> name, arg |-> arg, preCol |-> column_position,
              scrolls |-> r.scrolls, wb |-> r.wb, rows |-> r.rows,
              cols |-> r.cols,
              hist |-> IF r.scrolls > 0
                       THEN Append(op.hist, buffer[BUFFER_HEIGHT - 1])
                       ELSE op.hist,
              streak |-> IF name = "new_line" THEN op.streak + 1 ELSE 0,
              glyphs |-> IF name = "new_line" THEN op.glyphs
                                              ELSE op.glyphs + 1]
    /\ nops' = nops + 1
    /\ UNCHANGED <<pvars, frame>>

InitV ==
    /\ column_position = 0
    /\ color_code = ColorCode_new(Color.Yellow, Color.Black)
    /\ buffer \in InitGrids
    /\ index_panic = FALSE
    /\ op = [name |-> "none", arg |-> <<>>, preCol |-> 0, scrolls |-> 0,
             wb |-> <<>>, rows |-> {}, cols |-> {},
             hist |-> <<>>, streak |-> 0, glyphs |-> 0]
    /\ nops = 0
    /\ initialized = TRUE
    /\ built = 1
    /\ ProcInit

\* writer.new_line()
ScrollLine ==
    /\ Len(op.hist) < MaxScrolls
    /\ ~index_panic
    /\ CommitV("new_line", <<>>, new_line(Cur))

\* writer.write_byte(byte), byte a glyph
TypeGlyph ==
    \E byte \in Glyphs :
        /\ op.glyphs < MaxGlyphs
        /\ ~index_panic
        /\ CommitV("write_byte", <<byte>>, write_byte(Cur, byte))

NextV == ScrollLine \/ TypeGlyph

SpecV == InitV /\ [][NextV]_vars

\* ------------------------------------------------------------------------
\* SpecC: ColorCode::new applied to a pair of colours.
\* ------------------------------------------------------------------------
InitC ==
    /\ \E foreground \in ColorValues, background \in ColorValues :
           op = [NoOp EXCEPT !.arg = <<foreground, background>>]
    /\ column_position = Unbuilt
    /\ color_code = Unbuilt
    /\ buffer \in InitGrids
    /\ index_panic = FALSE
    /\ nops = 0
    /\ initialized = FALSE
    /\ built = 0
    /\ ProcInit

NewColorCode ==
    /\ op.name = "none"
    /\ color_code' = ColorCode_new(op.arg[1], op.arg[2])
    /\ op' = [op EXCEPT !.name = "ColorCode_new"]
    /\ UNCHANGED <<column_position, buffer, index_panic, nops, pvars, frame>>

NextC == NewColorCode

SpecC == InitC /\ [][NextC]_vars

\* ------------------------------------------------------------------------
\* Properties of the Writer's operations (SpecW)
\* ------------------------------------------------------------------------
LastRow == BUFFER_HEIGHT - 1

Printable(byte) == byte >= 32 /\ byte <= 126

AllPrintable(s) == \A i \in 1 .. Len(s) : Printable(s[i])

\* The step is one public operation of the given name.
Did(name) == nops' = nops + 1 /\ op'.name = name

\* C1: along any sequence of write_byte, write_string and new_line from the
\* initial Writer, column_position stays within 0..80 and every index used
\* on chars[row][col] has row in 0..24 and col in 0..79: no index panics.
C1_InBounds ==
    /\ column_position \in 0 .. BUFFER_WIDTH
    /\ ~index_panic
    /\ op.rows \subseteq Rows
    /\ op.cols \subseteq Cols

\* A byte written at column 80: the wrap ran and the byte went to column 0.
C1_Witness ==
    /\ op.name = "write_byte" /\ op.arg = <<32>>
    /\ op.preCol = BUFFER_WIDTH
    /\ op.cols = Cols /\ LastRow \in op.rows
    /\ column_position = 1

\* C3: write_byte of a printable byte at a column c < 80 leaves the column
\* at c + 1 and cell (24, c) holding the byte in the Writer's colour.
C3_PrintablePlaced ==
    (op.name = "write_byte" /\ Printable(op.arg[1]) /\ op.preCol < BUFFER_WIDTH)
        => /\ column_position = op.preCol + 1
           /\ buffer[LastRow][op.preCol] = ScreenChar(op.arg[1], color_code)

\* The last column: '~' written at column 79.
C3_Witness ==
    /\ op.name = "write_byte" /\ op.arg = <<126>>
    /\ op.preCol = BUFFER_WIDTH - 1
    /\ column_position = BUFFER_WIDTH
    /\ buffer[LastRow][BUFFER_WIDTH - 1] = ScreenChar(126, color_code)

\* C4, as claimed: write_byte of a byte that is neither printable nor newline
\* leaves the state write_byte(0xFE) would leave.
C4_WriteByteSubstitutes ==
    [][(Did("write_byte") /\ ~Printable(op'.arg[1]) /\ op'.arg[1] # 10)
          => LET r == write_byte(Cur, 254)
             IN  /\ buffer' = r.buffer
                 /\ column_position' = r.column_position
                 /\ color_code' = r.color_code]_vars

RECURSIVE Repeat254(_, _)
\* n calls of write_byte(0xFE), one after another (none after a panic).
Repeat254(w, n) ==
    IF n = 0 \/ w.index_panic THEN w ELSE Repeat254(write_byte(w, 254), n - 1)

NoneShown(s) == \A i \in 1 .. Len(s) : ~Printable(s[i]) /\ s[i] # 10

\* C4, amended: write_string of a string whose bytes are all neither
\* printable nor newline leaves the state that one write_byte(0xFE) per byte
\* would leave, and passes 0xFE to write_byte each time.
C4_WriteStringSubstitutes ==
    [][(Did("write_string") /\ NoneShown(op'.arg))
          => LET r == Repeat254(Cur, Len(op'.arg))
             IN  /\ buffer' = r.buffer
                 /\ column_position' = r.column_position
                 /\ color_code' = r.color_code
                 /\ op'.wb = [i \in 1 .. Len(op'.arg) |-> 254]]_vars

\* A two-byte character written at column 79: a placeholder at (24, 79), a
\* scroll, a placeholder at (24, 0).
C4_Witness ==
    /\ op.name = "write_string" /\ op.arg = <<195, 169>>
    /\ op.preCol = BUFFER_WIDTH - 1
    /\ op.scrolls = 1
    /\ column_position = 1
    /\ buffer[LastRow][0] = ScreenChar(254, color_code)
    /\ buffer[LastRow - 1][BUFFER_WIDTH - 1] = ScreenChar(254, color_code)

\* The byte write_string passes to write_byte for an input byte.
Forwarded(byte) == IF Printable(byte) \/ byte = 10 THEN byte ELSE 254

RECURSIVE WriteForwarded(_, _, _)
\* write_byte on what is forwarded for each byte of s from the i-th on, in
\* order (none after a panic).
WriteForwarded(w, s, i) ==
    IF i > Len(s) \/ w.index_panic THEN w
    ELSE WriteForwarded(write_byte(w, Forwarded(s[i])), s, i + 1)

\* C5: write_string(s) calls write_byte once per byte of s, in order, with
\* printable bytes and newline unchanged and every other byte as 0xFE, and
\* leaves the state those calls leave; a string without newline moves the
\* rendered position (80 per scroll plus the column) by its length.
C5_WriteStringIsByteWise ==
    [][Did("write_string")
          => LET r == WriteForwarded(Cur, op'.arg, 1)
             IN  /\ Len(op'.wb) = Len(op'.arg)
                 /\ \A i \in 1 .. Len(op'.arg) : op'.wb[i] = Forwarded(op'.arg[i])
                 /\ buffer' = r.buffer
                 /\ column_position' = r.column_position
                 /\ color_code' = r.color_code
                 /\ (\A i \in 1 .. Len(op'.arg) : op'.arg[i] # 10)
                       => op'.scrolls * BUFFER_WIDTH + column_position'
                              = column_position + Len(op'.arg)]_vars

\* The mixed string written at column 79: '~', a placeholder for DEL after a
\* wrap, a newline, '!'.
C5_Witness ==
    /\ op.name = "write_string" /\ op.arg = <<126, 127, 10, 33>>
    /\ op.wb = <<126, 254, 10, 33>>
    /\ op.preCol = BUFFER_WIDTH - 1
    /\ op.scrolls = 2
    /\ column_position = 1
    /\ buffer[LastRow - 2][BUFFER_WIDTH - 1] = ScreenChar(126, color_code)
    /\ buffer[LastRow - 1][0] = ScreenChar(254, color_code)
    /\ buffer[LastRow][0] = ScreenChar(33, color_code)

\* The cells of a row holding the bytes of s in the colour cc.
RowOf(s, cc) == [col \in Cols |-> ScreenChar(s[col + 1], cc)]

\* C6: from column 0, 80 printable bytes fill row 24 in order without a
\* scroll and leave the column at 80; one more printable byte then scrolls
\* exactly once, lands at (24, 0) with the column at 1, and the 80 bytes are
\* in row 23.
C6_FillThenWrap ==
    [][/\ (Did("write_string") /\ column_position = 0
             /\ Len(op'.arg) = BUFFER_WIDTH /\ AllPrintable(op'.arg))
          => /\ op'.scrolls = 0
             /\ column_position' = BUFFER_WIDTH
             /\ buffer'[LastRow] = RowOf(op'.arg, color_code)
       /\ (op.name = "write_string" /\ op.preCol = 0
             /\ Len(op.arg) = BUFFER_WIDTH /\ AllPrintable(op.arg)
             /\ Did("write_byte") /\ Printable(op'.arg[1]))
          => /\ op'.scrolls = 1
             /\ column_position' = 1
             /\ buffer'[LastRow][0] = ScreenChar(op'.arg[1], color_code)
             /\ buffer'[LastRow - 1] = RowOf(op.arg, color_code)]_vars

\* The 81st byte has been written: one scroll, the line of 80 in row 23.
C6_Witness ==
    /\ op.name = "write_byte" /\ op.arg = <<126>>
    /\ op.preCol = BUFFER_WIDTH
    /\ op.scrolls = 1
    /\ column_position = 1
    /\ buffer[LastRow][0] = ScreenChar(126, color_code)
    /\ buffer[LastRow - 1] = RowOf(Line(BUFFER_WIDTH), color_code)

\* C7: new_line moves every row up by one, drops row 0 (its content stays
\* only where the grid held it in another row too), blanks row 24 in the
\* Writer's colour and sets the column to 0, whatever the column was.
C7_NewLine ==
    [][Did("new_line")
          => /\ \A row \in 0 .. (LastRow - 1) : \A col \in Cols :
                    buffer'[row][col] = buffer[row + 1][col]
             /\ \A row \in Rows :
                    buffer'[row] = buffer[0]
                        => \/ \E r2 \in 1 .. LastRow : buffer[r2] = buffer[0]
                           \/ buffer[0] = [col \in Cols |-> ScreenChar(32, color_code)]
             /\ \A col \in Cols : buffer'[LastRow][col] = ScreenChar(32, color_code)
             /\ column_position' = 0]_vars

\* new_line called with the bottom row full: the line is in row 23, row 24 is
\* blank and the column is back at 0.
C7_Witness ==
    /\ op.name = "new_line"
    /\ op.preCol = BUFFER_WIDTH
    /\ column_position = 0
    /\ buffer[LastRow - 1] = RowOf(Line(BUFFER_WIDTH), color_code)
    /\ buffer[LastRow] = [col \in Cols |-> ScreenChar(32, color_code)]

\* "Hello" followed by blanks, in the colour cc.
HelloRow(cc) ==
    [col \in Cols |-> IF col < 5 THEN ScreenChar(Hello[col + 1], cc)
                                 ELSE ScreenChar(32, cc)]

\* C8, as claimed: after write_string("Hello\n"), row 23 is H, e, l, l, o
\* and then blanks in the Writer's colour.
C8_HelloRow ==
    (op.name = "write_string" /\ op.arg = Hello)
        => buffer[LastRow - 1] = HelloRow(color_code)

\* C8, amended: that holds when the call starts at column 0 with the cells
\* (24, 5..79) blank in the Writer's colour, as they are after a new_line.
C8_HelloRowOnBlankLine ==
    [][(Did("write_string") /\ op'.arg = Hello /\ column_position = 0
          /\ \A col \in 5 .. (BUFFER_WIDTH - 1) :
                 buffer[LastRow][col] = ScreenChar(32, color_code))
          => buffer'[LastRow - 1] = HelloRow(color_code)]_vars

\* "Hello\n" written at column 0 and read back from row 23.
C8_Witness ==
    /\ op.name = "write_string" /\ op.arg = Hello
    /\ op.preCol = 0
    /\ op.scrolls = 1
    /\ buffer[LastRow - 1] = HelloRow(color_code)

\* ------------------------------------------------------------------------
\* Properties of the locked singleton (SpecP)
\* ------------------------------------------------------------------------
PrintlnHi == <<Text(<<72, 105>>), Text(<<10>>)>>

RECURSIVE CallBytes(_, _)
\* The bytes a call hands to write_byte, from its i-th piece on: every text,
\* byte by byte, up to the first formatting step that fails.
CallBytes(a, i) ==
    IF i > Len(a) THEN <<>>
    ELSE IF a[i].err THEN <<>>
    ELSE [k \in 1 .. Len(a[i].s) |-> Forwarded(a[i].s[k])] \o CallBytes(a, i + 1)

\* The bytes call c has had written so far, in order.
Written(c) ==
    LET mine == SelectSeq(log, LAMBDA e : e[1] = c)
    IN  [k \in 1 .. Len(mine) |-> mine[k][2]]

\* C2: the write_byte calls applied to the Writer are a concatenation of
\* whole _print calls: the bytes of a call are contiguous, and a call whose
\* bytes are followed by another call's has had all of its bytes written,
\* a println!'s trailing newline included.
C2_WholeCalls ==
    /\ \A i \in 1 .. Len(log) : \A k \in i .. Len(log) :
           log[i][1] = log[k][1] => \A j \in i .. k : log[j][1] = log[i][1]
    /\ \A i \in 1 .. (Len(log) - 1) :
           log[i][1] # log[i + 1][1]
               => Written(log[i][1]) = CallBytes(issued[log[i][1]], 1)
    /\ \A c \in 1 .. Len(issued) :
           Len(Written(c)) <= Len(CallBytes(issued[c], 1))
           /\ Written(c) = SubSeq(CallBytes(issued[c], 1), 1, Len(Written(c)))

\* One caller is between a println!'s text and its newline while the other
\* spins on the lock, after an earlier call of the other was written.
C2_Witness ==
    \E p \in Procs : \E q \in Procs \ {p} :
        /\ pc[p] = "fmt" /\ args[p] = PrintlnHi /\ piece[p] = 2 /\ pos[p] = 1
        /\ pc[q] = "lock"
        /\ Len(log) >= 3
        /\ log[Len(log)][1] = callid[p]
        /\ log[1][1] # callid[p]

InLockedSection == {"fmt", "panic", "halted"}

\* C10: every step that ends a _print call, by return or by the panic of a
\* failed formatting step unwinding, leaves the lock free; the lock is held
\* only while some call is between its lock() and its end.
C10_GuardReleased ==
    [][/\ \A p \in Procs :
              (pc[p] \in {"fmt", "panic"} /\ pc'[p] = "idle")
                  => ~locked' /\ exit'[p] \in {"ok", "panic"}
       /\ locked' => \E p \in Procs : pc'[p] \in InLockedSection]_vars

\* A call failed in formatting after writing its "A"; the other caller then
\* took the lock and wrote.
C10_Witness ==
    \E p \in Procs : \E q \in Procs \ {p} :
        /\ pc[p] = "idle" /\ exit[p] = "panic"
        /\ pc[q] = "fmt" /\ locked
        /\ Len(log) >= 2
        /\ log[Len(log)][1] = callid[q]
        /\ log[Len(log) - 1] = <<callid[p], 65>>

\* ------------------------------------------------------------------------
\* Properties of the colour encoding (SpecC)
\* ------------------------------------------------------------------------
\* C9: for each of the 16 x 16 colour pairs ColorCode::new gives the byte
\* (bg << 4) | fg = 16 * bg + fg: the shift loses no bit, the low nibble is
\* fg, the high nibble is bg, and no other pair gives the same byte.
C9_ColorCode ==
    op.name = "ColorCode_new"
        => LET foreground == op.arg[1]
               background == op.arg[2]
           IN  /\ background * 16 <= 255
               /\ color_code = background * 16 + foreground
               /\ color_code \in 0 .. 255
               /\ color_code % 16 = foreground
               /\ color_code \div 16 = background
               /\ \A f2 \in ColorValues, b2 \in ColorValues :
                      <<f2, b2>> # <<foreground, background>>
                          => ColorCode_new(f2, b2) # color_code

\* Pink on White, both nibbles set.
C9_Witness ==
    /\ op.name = "ColorCode_new"
    /\ op.arg = <<Color.Pink, Color.White>>
    /\ color_code = 253

\* ------------------------------------------------------------------------
\* Completion of an accepted write (SpecP)
\* ------------------------------------------------------------------------
NoFmtErr(a) == \A i \in 1 .. Len(a) : ~a[i].err

RECURSIVE BytesFrom(_, _)
\* The bytes of the texts of a from its i-th piece on.
BytesFrom(a, i) == IF i > Len(a) THEN 0 ELSE Len(a[i].s) + BytesFrom(a, i + 1)

\* How far a caller that holds the lock is from the end of its call: the
\* bytes still to write and the steps that end the call.
Left(p) ==
    IF pc[p] = "fmt" THEN 2 + BytesFrom(args[p], piece[p]) - (pos[p] - 1)
    ELSE IF pc[p] = "panic" THEN 1
    ELSE 0

\* A caller that holds the lock is at a step it can take: at a byte of a
\* text with the Writer not stopped by a panic (WriteStrByte), at a failing
\* formatting step (FmtFails), at the end of its pieces (Return), or
\* panicking (Unwind, Halt).
Ready(p) ==
    \/ pc[p] = "panic"
    \/ /\ pc[p] = "fmt"
       /\ \/ piece[p] > Len(args[p])
          \/ args[p][piece[p]].err
          \/ ~index_panic /\ pos[p] \in 1 .. Len(args[p][piece[p]].s)

\* C11, as claimed: a call that has the lock has no abort path and never
\* ends with a panic.
C11_NoAbortPath ==
    \A p \in Procs : pc[p] \notin {"panic", "halted"} /\ exit[p] # "panic"

\* C11, amended: the only abort path of a call that has the lock is a
\* formatting step that returns Err, which leaves the text before it
\* written; a caller stopped by a panic that does not unwind keeps the
\* lock. Otherwise the call runs to completion: while a caller holds the
\* lock it is at a step it can take whatever the other callers do, every step
\* of it brings the end of the call nearer and no step of another caller
\* moves it away, and a call that returns has had every byte written and
\* leaves the lock free.
C11_CompletesUnlessFormattingFails ==
    [][\A p \in Procs :
          /\ pc'[p] \in {"fmt", "panic"} => Ready(p)'
          /\ pc[p] \in {"fmt", "panic"} => Left(p)' <= Left(p)
          /\ Runs(p) => Left(p)' < Left(p)
          /\ (pc[p] = "fmt" /\ pc'[p] = "panic")
                => /\ args[p][piece[p]].err
                   /\ Written(callid[p]) = CallBytes(args[p], 1)
          /\ (pc[p] = "fmt" /\ pc'[p] = "idle")
                => /\ NoFmtErr(args[p])
                   /\ Written(callid[p]) = CallBytes(args[p], 1)
                   /\ exit'[p] = "ok"
                   /\ ~locked'
          /\ pc'[p] = "halted" => locked']_vars

\* One caller's call was written whole; the other's then failed in
\* formatting after its "A" and stopped without unwinding; the first caller
\* now spins on the lock.
C11_Witness ==
    \E p \in Procs : \E q \in Procs \ {p} :
        /\ pc[p] = "halted" /\ locked
        /\ Written(callid[p]) = <<65>>
        /\ pc[q] = "lock" /\ exit[q] = "ok"
        /\ callid[q] > callid[p]

\* ------------------------------------------------------------------------
\* Properties of the text-stream adapter (SpecS)
\* ------------------------------------------------------------------------
\* C12: write_str(s) leaves the Writer and the grid as write_string(s)
\* leaves them from the same state, after the same write_byte calls, and
\* returns Ok, for every s and every state.
C12_WriteStrForwards ==
    [][Did("write_str")
          => LET r == write_string(Cur, op'.arg)
             IN  /\ buffer' = r.buffer
                 /\ column_position' = r.column_position
                 /\ color_code' = r.color_code
                 /\ index_panic' = r.index_panic
                 /\ op'.wb = r.wb
                 /\ op'.result = "Ok"]_vars

\* A two-byte character handed to write_str at column 79: Ok, and the two
\* placeholders write_string draws, either side of a scroll.
C12_Witness ==
    /\ op.name = "write_str" /\ op.arg = <<195, 169>>
    /\ op.result = "Ok"
    /\ op.preCol = BUFFER_WIDTH - 1
    /\ op.wb = <<254, 254>>
    /\ column_position = 1
    /\ buffer[LastRow][0] = ScreenChar(254, color_code)

\* ------------------------------------------------------------------------
\* Properties of the lazily built singleton (SpecP)
\* ------------------------------------------------------------------------
PastDeref(p) == pc[p] \in {"lock", "fmt", "panic", "halted"}

\* C13: the Writer is built at most once, by the first access, also when
\* both callers are at their first access together; it starts at column 0
\* with colour 0x0E; no caller gets past the access before it is built; and
\* it is never rebuilt: after construction the colour stays and column and
\* grid change only by a byte being written.
C13_BuiltOnce ==
    [][/\ built' <= 1
       /\ initialized' <=> (built' = 1)
       /\ \A p \in Procs : PastDeref(p)' => initialized'
       /\ built' # built
             => /\ ~initialized
                /\ \E p \in Procs : pc[p] = "deref" /\ pc'[p] = "lock"
                /\ column_position' = 0
                /\ color_code' = 14
                /\ buffer' = buffer
       /\ initialized
             => /\ color_code' = color_code
                /\ (column_position' # column_position \/ buffer' # buffer)
                      => \E p \in Procs : WriteStrByte(p)]_vars

\* A later call has gone through the access while the column and the
\* placeholders of an earlier call are still there.
C13_Witness ==
    /\ built = 1
    /\ column_position = 2
    /\ buffer[LastRow][0] = ScreenChar(254, 14)
    /\ buffer[LastRow][1] = ScreenChar(254, 14)
    /\ \E p \in Procs : pc[p] = "lock" /\ callid[p] >= 2
    /\ \E q \in Procs : pc[q] = "deref" /\ callid[q] >= 2

\* ------------------------------------------------------------------------
\* Colour of the cells the Writer produces (SpecW)
\* ------------------------------------------------------------------------
\* C14: no operation changes the Writer's colour code, and every cell an
\* operation changes either carries that colour code (a placed glyph or a
\* blank of the cleared bottom row) or is a copy of what a lower row of the
\* same column held before the operation.
C14_OneColour ==
    [][/\ color_code' = color_code
       /\ color_code' = ColorCode_new(Color.Yellow, Color.Black)
       /\ \A r \in Rows : \A c \in Cols :
             buffer'[r][c] # buffer[r][c]
                => \/ buffer'[r][c].color_code = color_code
                   \/ \E below \in (r + 1) .. LastRow :
                          buffer'[r][c] = buffer[below][c]]_vars

\* "Hello\n" on the boot screen: a glyph and blanks in the Writer's colour,
\* and boot text copied one row up in its own colour.
C14_Witness ==
    /\ op.name = "write_string" /\ op.arg = Hello /\ op.preCol = 0
    /\ color_code = 14
    /\ buffer[LastRow - 1][0] = ScreenChar(72, 14)
    /\ buffer[LastRow][0] = ScreenChar(32, 14)
    /\ buffer[LastRow - 1][6] = BootText[LastRow][6]
    /\ buffer[LastRow - 1][6].color_code = 7

\* ------------------------------------------------------------------------
\* Order of the device accesses (SpecN)
\* ------------------------------------------------------------------------
ShiftAccesses == (BUFFER_HEIGHT - 1) * BUFFER_WIDTH

Scrolling ==
    \/ op.name = "new_line"
    \/ op.name = "write_byte" /\ (op.arg[1] = 10 \/ op.preCol >= BUFFER_WIDTH)

\* What the call in progress, or just finished, was applied to.
Entry == [Cur EXCEPT !.buffer = op.before, !.column_position = op.preCol]

\* C15: in new_line the i-th read is of cell (1 + (i-1) div 80, (i-1) mod 80),
\* rows then columns ascending, it returns what the cell held when new_line
\* was entered (nothing overwrote it first), and it is followed at once by
\* the i-th write, of that value to the cell above; after the 1920 pairs come
\* exactly 80 writes of the blank to row 24, columns ascending, and nothing
\* else. A write_byte of a non-newline byte at a column below 80 makes one
\* write, to (24, column), and no read. Run to its end, either call leaves
\* what the operation as a whole is defined to leave.
C15_AccessOrder ==
    LET i == op.reads
        j == op.writes
        a == op.last
    IN  /\ Scrolling =>
            /\ i <= ShiftAccesses
            /\ a.kind = "none" => i = 0 /\ j = 0 /\ frame.pc = "read"
            /\ a.kind = "read" =>
                  /\ j = i - 1
                  /\ a.row = 1 + ((i - 1) \div BUFFER_WIDTH)
                  /\ a.col = (i - 1) % BUFFER_WIDTH
                  /\ a.val = op.before[a.row][a.col]
                  /\ frame.pc = "write"
            /\ (a.kind = "write" /\ j <= ShiftAccesses) =>
                  /\ i = j
                  /\ a.row = (j - 1) \div BUFFER_WIDTH
                  /\ a.col = (j - 1) % BUFFER_WIDTH
                  /\ a.val = op.before[a.row + 1][a.col]
            /\ (a.kind = "write" /\ j > ShiftAccesses) =>
                  /\ i = ShiftAccesses
                  /\ j <= ShiftAccesses + BUFFER_WIDTH + 1
                  /\ j <= ShiftAccesses + BUFFER_WIDTH =>
                        /\ a.row = LastRow
                        /\ a.col = j - ShiftAccesses - 1
                        /\ a.val = ScreenChar(32, color_code)
                  /\ j = ShiftAccesses + BUFFER_WIDTH + 1 =>
                        /\ op.name = "write_byte" /\ op.arg[1] # 10
                        /\ a.row = LastRow /\ a.col = 0
                        /\ a.val = ScreenChar(op.arg[1], color_code)
                        /\ frame.pc = "idle"
            /\ frame.pc \in {"column", "put"} => j = ShiftAccesses + BUFFER_WIDTH
            /\ (frame.pc = "idle" /\ op.name = "new_line")
                  => j = ShiftAccesses + BUFFER_WIDTH
            /\ (frame.pc = "idle" /\ op.name = "write_byte" /\ op.arg[1] # 10)
                  => j = ShiftAccesses + BUFFER_WIDTH + 1
        /\ (op.name = "write_byte" /\ ~Scrolling) =>
            /\ i = 0
            /\ frame.pc = "put" => j = 0 /\ a.kind = "none"
            /\ frame.pc = "idle" =>
                  /\ j = 1
                  /\ a = [kind |-> "write", row |-> LastRow, col |-> op.preCol,
                          val |-> ScreenChar(op.arg[1], color_code)]
        /\ (frame.pc = "idle" /\ op.name # "none") =>
            LET r == IF op.name = "new_line" THEN new_line(Entry)
                     ELSE write_byte(Entry, op.arg[1])
            IN  /\ buffer = r.buffer
                /\ column_position = r.column_position
                /\ ~index_panic

\* new_line run to its end over a full bottom row.
C15_Witness ==
    /\ op.name = "new_line" /\ op.preCol = BUFFER_WIDTH
    /\ frame.pc = "idle"
    /\ op.reads = ShiftAccesses
    /\ op.writes = ShiftAccesses + BUFFER_WIDTH
    /\ op.last = [kind |-> "write", row |-> LastRow, col |-> BUFFER_WIDTH - 1,
                  val |-> ScreenChar(32, color_code)]
    /\ buffer[LastRow - 1] = RowOf(Line(BUFFER_WIDTH), color_code)

\* ------------------------------------------------------------------------
\* No scrollback (SpecV)
\* ------------------------------------------------------------------------
AllBlank ==
    \A r \in Rows : \A c \in Cols : buffer[r][c] = ScreenChar(32, color_code)

\* C16: the bottom row a scroll found is in row 24 - k after k scrolls,
\* for k from 1 to 24; with the 25th it has left the display, which then
\* shows it only where a later line repeats it; and 25 new_line calls in a
\* row leave every cell blank.
C16_NoScrollback ==
    LET n == Len(op.hist)
    IN  /\ \A k \in 1 .. (BUFFER_HEIGHT - 1) :
              k <= n => buffer[LastRow - k] = op.hist[n - k + 1]
        /\ \A m \in 1 .. n :
              (/\ n - m + 1 >= BUFFER_HEIGHT
               /\ op.hist[m] # buffer[LastRow]
               /\ \A x \in (m + 1) .. n : op.hist[x] # op.hist[m])
                 => \A r \in Rows : buffer[r] # op.hist[m]
        /\ op.streak >= BUFFER_HEIGHT => AllBlank

\* After 25 scrolls the boot text's bottom row is in no row, and the line
\* typed after the first scroll has reached row 0.
C16_Witness ==
    /\ Len(op.hist) = BUFFER_HEIGHT
    /\ op.hist[1] = BootText[LastRow]
    /\ op.hist[2][0] = ScreenChar(126, color_code)
    /\ buffer[0] = op.hist[2]
    /\ \A r \in Rows : buffer[r] # op.hist[1]
    /\ op.streak = BUFFER_HEIGHT - 1
    /\ ~AllBlank

\* ------------------------------------------------------------------------
\* What an operation leaves alone (SpecW)
\* ------------------------------------------------------------------------
\* C17: write_byte of a non-newline byte at a column c below 80 changes no
\* cell but (24, c), does not scroll, and moves the column to c + 1; an
\* operation that did not run new_line leaves rows 0 to 23 as they were;
\* and no operation changes the colour code.
C17_Frame ==
    [][/\ (/\ Did("write_byte")
           /\ op'.arg[1] # 10
           /\ column_position < BUFFER_WIDTH)
             => /\ \A r \in Rows : \A c \in Cols :
                      (r # LastRow \/ c # column_position)
                         => buffer'[r][c] = buffer[r][c]
                /\ buffer'[LastRow][column_position]
                      = ScreenChar(op'.arg[1], color_code)
                /\ op'.scrolls = 0
                /\ column_position' = column_position + 1
       /\ (nops' = nops + 1 /\ op'.scrolls = 0)
             => \A r \in 0 .. (LastRow - 1) : buffer'[r] = buffer[r]
       /\ nops' = nops + 1 => color_code' = color_code]_vars

\* A glyph placed in the last column of a row, the rows above untouched.
C17_Witness ==
    /\ op.name = "write_byte" /\ op.arg = <<126>>
    /\ op.preCol = BUFFER_WIDTH - 1
    /\ op.scrolls = 0
    /\ column_position = BUFFER_WIDTH
    /\ buffer[LastRow][BUFFER_WIDTH - 1] = ScreenChar(126, color_code)
    /\ buffer[LastRow][0] = ScreenChar(Line(BUFFER_WIDTH - 1)[1], color_code)
    /\ \A r \in 0 .. (LastRow - 1) : buffer[r] = BootText[r]

\* ------------------------------------------------------------------------
\* The bottom row right of the cursor (SpecW)
\* ------------------------------------------------------------------------
RestOfLineBlank ==
    \A j \in column_position .. (BUFFER_WIDTH - 1) :
        buffer[LastRow][j] = ScreenChar(32, color_code)

\* C18: once a new_line has run, every cell (24, j) with
\* column_position <= j <= 79 is blank in the current colour whenever no
\* operation is running: an operation that scrolled leaves the row so, and
\* every operation started with the row so leaves it so.
C18_CleanAfterCursor ==
    [][nops' = nops + 1
          => /\ op'.scrolls > 0 => RestOfLineBlank'
             /\ RestOfLineBlank => RestOfLineBlank']_vars

\* A glyph typed on the fresh line after "Hello\n": blank from column 1 on,
\* while the row above still ends in boot text.
C18_Witness ==
    /\ op.name = "write_byte" /\ op.arg = <<126>>
    /\ op.preCol = 0 /\ op.scrolls = 0
    /\ column_position = 1
    /\ buffer[LastRow][0] = ScreenChar(126, color_code)
    /\ RestOfLineBlank
    /\ buffer[LastRow - 1][0] = ScreenChar(72, color_code)
    /\ buffer[LastRow - 1][BUFFER_WIDTH - 1] # ScreenChar(32, color_code)

\* ------------------------------------------------------------------------
\* Column arithmetic (SpecW)
\* ------------------------------------------------------------------------
GlyphsOnly == op.wb # <<>> /\ \A i \in 1 .. Len(op.wb) : op.wb[i] # 10

\* C19: n >= 1 write_byte calls of non-newline bytes from column c scroll
\* floor((c + n - 1) / 80) times and end at column ((c + n - 1) mod 80) + 1;
\* and after an operation the column is 0 exactly when the last thing it
\* ran was new_line, so never after a glyph was placed.
C19_ColumnArithmetic ==
    /\ GlyphsOnly
          => LET n == Len(op.wb)
                 c == op.preCol
             IN  /\ c \in 0 .. BUFFER_WIDTH
                 /\ op.scrolls = (c + n - 1) \div BUFFER_WIDTH
                 /\ column_position = ((c + n - 1) % BUFFER_WIDTH) + 1
    /\ op.name # "none"
          => (column_position = 0
                 <=> \/ op.name = "new_line"
                     \/ op.wb # <<>> /\ op.wb[Len(op.wb)] = 10)

\* 80 glyphs from column 79: one scroll, and the column ends at 79.
C19_Witness ==
    /\ op.name = "write_string" /\ op.arg = Line(BUFFER_WIDTH)
    /\ GlyphsOnly
    /\ op.preCol = BUFFER_WIDTH - 1
    /\ op.scrolls = 1
    /\ column_position = BUFFER_WIDTH - 1

\* ------------------------------------------------------------------------
\* Newline on a full row (SpecW)
\* ------------------------------------------------------------------------
\* C20: write_byte of the newline scrolls exactly once whatever the column,
\* 80 included: every row moves up by one and no more, row 24 is blank and
\* the column is 0. So after 80 glyphs and a newline the glyphs are in row
\* 23, directly under what was above them, with a blank row 24.
C20_NewlineScrollsOnce ==
    [][(Did("write_byte") /\ op'.arg[1] = 10)
          => /\ op'.scrolls = 1
             /\ \A r \in 0 .. (LastRow - 1) : buffer'[r] = buffer[r + 1]
             /\ \A c \in Cols : buffer'[LastRow][c] = ScreenChar(32, color_code)
             /\ column_position' = 0
             /\ ~index_panic']_vars

\* The newline written at column 80 after a line of 80 glyphs.
C20_Witness ==
    /\ op.name = "write_byte" /\ op.arg = <<10>>
    /\ op.preCol = BUFFER_WIDTH
    /\ op.scrolls = 1
    /\ column_position = 0
    /\ buffer[LastRow - 1] = RowOf(Line(BUFFER_WIDTH), color_code)
    /\ buffer[LastRow - 2] = BootText[LastRow - 1]
    /\ \A c \in Cols : buffer[LastRow][c] = ScreenChar(32, color_code)

====
